---- MODULE Spec2Model ----
(***************************************************************************)
(* The setup wizard's orchestration engine (src/src/statemachine.js): the  *)
(* StateMachine class, its progress file and the wizard process that runs  *)
(* it (src/src/cli.js, src/index.js).                                      *)
(*                                                                         *)
(* A behaviour is a sequence of wizard processes over one working          *)
(* directory: each process constructs a StateMachine, runs it until run()  *)
(* settles and exits; the progress file survives from one process to the   *)
(* next.  Actions are the stretches of run() between two awaits.  A second *)
(* specification adds the managed background process of                    *)
(* src/src/utils/process.js and the SIGINT and SIGTERM handlers; others    *)
(* spell out rojoServer.run (src/unnamed/part_003) and add the errors of   *)
(* the file system the progress file is on.                                *)
(***************************************************************************)
EXTENDS Integers, Sequences, FiniteSets, TLC

(***************************************************************************)
(* Bounds of the model.                                                    *)
(***************************************************************************)
\* Length of the step list handed to the constructor.
NumStates == 3

\* Most {success:false, retry:true} results the steps return in one run().
MaxRetries == 2

(***************************************************************************)
(* JavaScript values.  A value is a record tagged by its type; an object   *)
(* is a function from its own keys to values, so a key that holds          *)
(* undefined differs from a key that is not there.                         *)
(***************************************************************************)
Undefined == [t |-> "undefined"]
Null == [t |-> "null"]
Bool(b) == [t |-> "boolean", b |-> b]
Num(n) == [t |-> "number", n |-> n]
Str(s) == [t |-> "string", s |-> s]
Arr(a) == [t |-> "array", a |-> a]
Obj(f) == [t |-> "object", f |-> f]

EmptyObject == Obj(<<>>)

\* o[k]: reading a missing property yields undefined.
Get(o, k) == IF o.t = "object" /\ k \in DOMAIN o.f THEN o.f[k] ELSE Undefined

\* ToBoolean, as `if (v)` and `v || w` apply it.
Truthy(v) ==
  CASE v.t = "undefined" -> FALSE
    [] v.t = "null" -> FALSE
    [] v.t = "boolean" -> v.b
    [] v.t = "number" -> v.n # 0
    [] v.t = "string" -> v.s # ""
    [] OTHER -> TRUE

\* { ...a, ...b } on the key functions of two objects.
Spread(a, b) ==
  [k \in (DOMAIN a) \cup (DOMAIN b) |-> IF k \in DOMAIN b THEN b[k] ELSE a[k]]

(***************************************************************************)
(* JSON.  JSON.stringify leaves out the members of an object whose value   *)
(* is undefined and writes null for an undefined array element; JSON.parse *)
(* reads the written document back.                                        *)
(***************************************************************************)
RECURSIVE JSONValue(_)
JSONValue(v) ==
  CASE v.t = "object" ->
         Obj([k \in {j \in DOMAIN v.f : v.f[j].t # "undefined"} |-> JSONValue(v.f[k])])
    [] v.t = "array" ->
         Arr([i \in DOMAIN v.a |->
                IF v.a[i].t = "undefined" THEN Null ELSE JSONValue(v.a[i])])
    [] OTHER -> v

JSONstringify(v) == [json |-> JSONValue(v)]

JSONparse(text) == text.json

\* Whether JSON.parse takes the text: it throws a SyntaxError on a text that
\* is no JSON document, and there is no text when readFileSync threw.
Parses(text) == "json" \in DOMAIN text

(***************************************************************************)
(* The progress file .yoblox-setup-state.json.                             *)
(***************************************************************************)
NoFile == [exists |-> FALSE]

FileWith(text) == [exists |-> TRUE, data |-> text]

\* The conditions of the file system: all calls succeed; writeFileSync and
\* unlinkSync throw and change nothing (EROFS, EACCES); writeFileSync throws
\* after it has truncated the file (ENOSPC); readFileSync throws (EACCES).
Conditions == {"ok", "readonly", "full", "unreadable"}

\* The text left by a write that was cut short.
TornText == [torn |-> TRUE]

\* What readFileSync throws instead of returning a text.
NoText == [threw |-> TRUE]

\* fs.existsSync and fs.readFileSync: the file as the process gets to see it.
Seen(f, cond) == IF f.exists /\ cond = "unreadable" THEN FileWith(NoText) ELSE f

\* fs.writeFileSync: the file after the call that was to make it next.
writeFileSync(f, next, cond) ==
  CASE cond = "readonly" -> f
    [] cond = "full" -> FileWith(TornText)
    [] OTHER -> next

\* fs.unlinkSync: the file after the call that was to make it next.
unlinkSync(f, next, cond) == IF cond = "readonly" THEN f ELSE next

(***************************************************************************)
(* The step list.  cli.js registers thirteen steps, each with a name, a    *)
(* check and a run, the last four also with a cleanup; the model runs      *)
(* NumStates of them, in the order of the list.  What a check or a run     *)
(* returns is the step's business: every result a step can return is an    *)
(* input of the engine.                                                    *)
(***************************************************************************)
StateNames ==
  << "welcome", "robloxStudio", "vscode", "git", "rust", "rojo",
     "vscodeExtensions", "aiCLI", "scaffold", "rojoServer", "studioSync",
     "syncVerification", "finalSummary" >>

\* The steps that export a cleanup function.
CleanupNames == {"rojoServer", "studioSync", "syncVerification", "finalSummary"}

\* The places in cli.js's list of the steps the model runs: the first two and
\* the steps from rojoServer on, which starts the managed process.
Modelled == <<1, 2, 10, 11, 12, 13>>

states ==
  [i \in 1..NumStates |->
     [name |-> StateNames[Modelled[i]], check |-> TRUE, run |-> TRUE,
      cleanup |-> StateNames[Modelled[i]] \in CleanupNames]]

\* states[index] with the code's indices, which start at 0.
StateAt(index) == states[index + 1]

Indices == 0..(NumStates - 1)

\* The data of welcome.run: the detected operating system.
DataWelcome == Obj([os |-> Str("windows")])

\* The data of robloxStudio.run when the age of the installation could not
\* be read: ageInfo.daysSinceModified is undefined.
DataStudio ==
  Obj([installedTools |-> Obj([robloxStudio |-> Bool(TRUE)]),
       studioAge |-> Undefined])

DataChoices == {Undefined, DataWelcome, DataStudio}

\* A data object whose installedTools lacks what an earlier step put there.
DataTools == Obj([installedTools |-> Obj([vscode |-> Bool(TRUE)])])

\* The results of a run in the behaviours that look at the merge alone.
MergeRunResults == [success : BOOLEAN, retry : {FALSE}, data : {DataStudio, DataTools}]

CheckResults == [found : BOOLEAN, canSkip : BOOLEAN]

RunResults == [success : BOOLEAN, retry : BOOLEAN, data : DataChoices]

\* The results of a run in the behaviours with signals or with file-system
\* errors, none of which depends on the data: one data object does.
InterruptRunResults == [success : BOOLEAN, retry : BOOLEAN, data : {DataWelcome}]

NoCheck == [found |-> FALSE, canSkip |-> FALSE]

NoResult == [success |-> FALSE, retry |-> FALSE, data |-> Undefined]

(***************************************************************************)
(* StateMachine: construction, persistence and restore.                    *)
(***************************************************************************)
\* this.context as the constructor sets it.
InitialContext ==
  [installedTools |-> EmptyObject, userChoices |-> EmptyObject,
   os |-> Null, projectName |-> Null]

\* A loadProgress that finds no record.
loadProgressFindsNothing(f) == Null

\* A loadProgress that takes a file it cannot parse for an empty record.
loadProgressTrustsFile(f) ==
  IF ~f.exists THEN Null
  ELSE IF ~Parses(f.data) THEN EmptyObject
  ELSE JSONparse(f.data)

\* loadProgress(): null when the file does not exist, null from the catch
\* when reading or parsing it throws, else the parsed text.
loadProgress(f) ==
  IF ~f.exists THEN Null
  ELSE IF ~Parses(f.data) THEN Null
  ELSE JSONparse(f.data)

\* A saveProgress that runs after the increment of currentStateIndex.
saveProgressAfterIncrement(index, completed, ctx) ==
  FileWith(JSONstringify(Obj(
    [version |-> Str("1.0.0"),
     timestamp |-> Str("toISOString"),
     currentStateIndex |-> Num(index + 1),
     completedStates |-> Arr([i \in DOMAIN completed |-> Str(completed[i])]),
     context |-> Obj(ctx)])))

\* A saveProgress that leaves the completed states out of the record.
saveProgressWithoutNames(index, completed, ctx) ==
  FileWith(JSONstringify(Obj(
    [version |-> Str("1.0.0"),
     timestamp |-> Str("toISOString"),
     currentStateIndex |-> Num(index),
     completedStates |-> Arr(<<>>),
     context |-> Obj(ctx)])))

\* saveProgress(): the file after the write.
saveProgress(index, completed, ctx) ==
  FileWith(JSONstringify(Obj(
    [version |-> Str("1.0.0"),
     timestamp |-> Str("toISOString"),
     currentStateIndex |-> Num(index),
     completedStates |-> Arr([i \in DOMAIN completed |-> Str(completed[i])]),
     context |-> Obj(ctx)])))

\* A clearProgress that leaves the file in place.
clearProgressKeepsFile(f) == f

\* clearProgress(): the file after the unlink.
clearProgress(f) == NoFile

\* A restoreProgress that keeps the engine's own context.
restoreProgressKeepsContext(sv, ctx) ==
  LET i == Get(sv, "currentStateIndex")
      c == Get(sv, "completedStates")
  IN  [currentStateIndex |-> IF Truthy(i) THEN i.n ELSE 0,
       completedStates |-> IF Truthy(c) THEN [j \in DOMAIN c.a |-> c.a[j].s] ELSE <<>>,
       context |-> ctx]

\* restoreProgress(saved): the three fields it assigns.
restoreProgress(sv, ctx) ==
  LET i == Get(sv, "currentStateIndex")
      c == Get(sv, "completedStates")
      x == Get(sv, "context")
  IN  [currentStateIndex |-> IF Truthy(i) THEN i.n ELSE 0,
       completedStates |-> IF Truthy(c) THEN [j \in DOMAIN c.a |-> c.a[j].s] ELSE <<>>,
       context |-> IF Truthy(x) THEN x.f ELSE ctx]

(***************************************************************************)
(* StateMachine: the decisions of executeState and of the loop of run().   *)
(***************************************************************************)
\* executeState's validation: a state must have a name and a run function.
validState(st) == st.name # "" /\ st.run

\* A skip test that never skips.
shouldSkipNever(checkResult) == FALSE

\* executeState: the state is skipped when its check found it and allows it.
shouldSkip(checkResult) == checkResult.found /\ checkResult.canSkip

\* What executeState returns for a skipped state: { success: true, skip: true }.
SkipResult == [success |-> TRUE, retry |-> FALSE, data |-> Undefined]

\* A merge that puts the data in the place of the context.
mergeDataReplaces(ctx, result) ==
  IF Truthy(result.data) THEN result.data.f ELSE ctx

\* A merge that also merges the objects found under a key of both.
mergeDataDeep(ctx, result) ==
  IF Truthy(result.data)
    THEN [k \in (DOMAIN ctx) \cup (DOMAIN result.data.f) |->
            IF k \notin DOMAIN result.data.f THEN ctx[k]
            ELSE IF k \in DOMAIN ctx /\ ctx[k].t = "object" /\ result.data.f[k].t = "object"
              THEN Obj(Spread(ctx[k].f, result.data.f[k].f))
            ELSE result.data.f[k]]
    ELSE ctx

\* executeState: `if (result.data) this.context = { ...this.context, ...result.data }`.
mergeData(ctx, result) ==
  IF Truthy(result.data) THEN Spread(ctx, result.data.f) ELSE ctx

\* A loop that pushes the name without looking for it first.
markCompletedAlwaysPushes(completed, name) == Append(completed, name)

\* run(): `if (!this.completedStates.includes(state.name)) push(state.name)`.
markCompleted(completed, name) ==
  IF \E i \in DOMAIN completed : completed[i] = name
    THEN completed
    ELSE Append(completed, name)

\* A prompt whose answer is not looked at: the record is restored either way.
afterPromptAlwaysRestores(shouldResume, sv, ctx, index, completed, f) ==
  [currentStateIndex |-> restoreProgress(sv, ctx).currentStateIndex,
   completedStates |-> restoreProgress(sv, ctx).completedStates,
   context |-> restoreProgress(sv, ctx).context,
   file |-> f]

\* run(): `if (shouldResume) this.restoreProgress(saved) else this.clearProgress()`:
\* the engine's fields and the file afterwards.
afterPrompt(shouldResume, sv, ctx, index, completed, f) ==
  IF shouldResume
    THEN [currentStateIndex |-> restoreProgress(sv, ctx).currentStateIndex,
          completedStates |-> restoreProgress(sv, ctx).completedStates,
          context |-> restoreProgress(sv, ctx).context,
          file |-> f]
    ELSE [currentStateIndex |-> index, completedStates |-> completed,
          context |-> ctx, file |-> clearProgress(f)]

\* A catch that throws an error of its own in the place of the one caught.
rethrowAsFatal(error) == [kind |-> "fatal", at |-> error.at]

\* run(): `catch (error) { logger.error(...); throw error; }`: the error
\* run() rejects with.
rethrow(error) == error

\* A branch that retries where the result asks for no retry.
outcomeNeverFatal(result) ==
  IF result.success THEN "advance" ELSE "retry"

\* A branch that takes a retry request for a success.
outcomeRetryAdvances(result) ==
  IF result.success \/ result.retry THEN "advance" ELSE "fatal"

\* run(): the branch taken on a result.
outcome(result) ==
  IF result.success THEN "advance"
  ELSE IF result.retry THEN "retry"
  ELSE "fatal"

(***************************************************************************)
(* The process manager (src/src/utils/process.js).  The wizard starts one  *)
(* managed process, "rojo-server"; `processes` is its entry in the         *)
(* registry with the ChildProcess's killed flag, `children` the child      *)
(* itself with the signals it was sent.                                    *)
(***************************************************************************)
NoProcesses == [has |-> FALSE, killed |-> FALSE]

NoChild == [st |-> "none", SIGTERM |-> FALSE, SIGKILL |-> FALSE]

\* startBackground: the registry entry and the child after the spawn.
spawned ==
  [processes |-> [has |-> TRUE, killed |-> FALSE],
   children |-> [st |-> "alive", SIGTERM |-> FALSE, SIGKILL |-> FALSE]]

\* proc.kill(signal): the signal is sent, and killed is set, only while the
\* child has not exited; afterwards kill returns false and changes nothing.
kill(procs, child, signal) ==
  IF child.st = "alive"
    THEN [processes |-> [procs EXCEPT !.killed = TRUE],
          children |-> [child EXCEPT ![signal] = TRUE]]
    ELSE [processes |-> procs, children |-> child]

\* stop(name) as far as it runs at once: it returns false for a name that is
\* not registered, deletes the entry of a process whose killed flag is set,
\* and otherwise sends SIGTERM, arms the 5 s timer and waits for the child's
\* exit event (pending).
stop(procs, child) ==
  IF ~procs.has
    THEN [processes |-> procs, children |-> child, pending |-> FALSE]
  ELSE IF procs.killed
    THEN [processes |-> NoProcesses, children |-> child, pending |-> FALSE]
  ELSE [processes |-> kill(procs, child, "SIGTERM").processes,
        children |-> kill(procs, child, "SIGTERM").children,
        pending |-> TRUE]

\* stop's timer: `if (!proc.killed) proc.kill('SIGKILL')`.
killTimeout(procs, child) ==
  IF ~procs.killed THEN kill(procs, child, "SIGKILL")
  ELSE [processes |-> procs, children |-> child]

\* isRunning(name), which is also getStatus(name).running: the name is
\* registered and the ChildProcess's killed flag is unset.
isRunning(procs) == procs.has /\ ~procs.killed

\* Signal handlers that write a progress record before they exit.
onSignalSavesProgress(f, index, completed, ctx) ==
  saveProgress(index, completed, ctx)

\* The progress file after the SIGINT and SIGTERM handlers of index.js,
\* cli.js and process.js have run: none of them touches it.
onSignal(f, index, completed, ctx) == f

\* main and cli.run: run() rejected and the error reached main's catch, which
\* calls process.exit(1); or run() resolved and the process ends with 0.
exitStatus(rejected) == IF rejected THEN 1 ELSE 0

(***************************************************************************)
(* rojoServer.run (src/unnamed/part_003).                                  *)
(***************************************************************************)
DEFAULT_PORT == 34872

FALLBACK_PORTS == <<34873, 34874, 34875, 34876>>

\* The ports in the order run probes them.
Ports == <<DEFAULT_PORT>> \o FALLBACK_PORTS

\* The data of scaffold.run: the project it created.
DataScaffold ==
  Obj([projectName |-> Str("my-game"), projectPath |-> Str("/home/dev/my-game")])

\* The results of the runs of the other steps in the behaviours that follow
\* rojoServer.run.
RojoRunResults == [success : BOOLEAN, retry : {FALSE}, data : {DataWelcome, DataScaffold}]

\* No call of rojoServer.run is in progress.  Of a call, pc is the await it
\* is at, call its number among the calls of the process, probes the answers
\* of isPortAvailable so far, selectedPort the local of that name (0 for
\* null), started whether startBackground spawned a child, portReady,
\* connected and answer what waitForPort, testConnection and the prompt
\* resolved with, result what the call returns.
NoRojo ==
  [pc |-> "idle", call |-> 0, probes |-> <<>>, selectedPort |-> 0,
   started |-> FALSE, portReady |-> "none", connected |-> "none",
   answer |-> "none", result |-> NoResult]

\* A selection that falls back to no port but takes the default one.
afterProbeTakesDefault(r, available) ==
  LET probes == Append(r.probes, available)
  IN  IF available
        THEN [r EXCEPT !.probes = probes, !.selectedPort = DEFAULT_PORT,
                       !.pc = "starting"]
      ELSE IF Len(probes) = Len(Ports)
        THEN [r EXCEPT !.probes = probes, !.pc = "occupied"]
      ELSE [r EXCEPT !.probes = probes]

\* run, step 1: isPortAvailable has answered for the next port of the list;
\* the first port that is available is selected, and when the last is not,
\* the user is asked 'Try again?'.
afterProbe(r, available) ==
  LET probes == Append(r.probes, available)
  IN  IF available
        THEN [r EXCEPT !.probes = probes, !.selectedPort = Ports[Len(probes)],
                       !.pc = "starting"]
      ELSE IF Len(probes) = Len(Ports)
        THEN [r EXCEPT !.probes = probes, !.pc = "occupied"]
      ELSE [r EXCEPT !.probes = probes]

\* A failure that asks for a retry whatever the user answered.
declinedAlwaysRetries(retry) == [success |-> FALSE, retry |-> TRUE, data |-> Undefined]

\* run: `const retry = await prompt.confirm('Try again?', true);
\* return { success: false, retry }`.
declined(retry) == [success |-> FALSE, retry |-> retry, data |-> Undefined]

\* run: `if (!context.projectPath) return { success: false, retry: false }`.
NoProject == [success |-> FALSE, retry |-> FALSE, data |-> Undefined]

\* A run that takes a server that does not answer HTTP for a failure.
succeededIfConnected(port, connected) ==
  IF connected
    THEN [success |-> TRUE, retry |-> FALSE,
          data |-> Obj([rojoPort |-> Num(port),
                        rojoUrl |-> Str("http://localhost:" \o ToString(port)),
                        rojoRunning |-> Bool(TRUE)])]
    ELSE [success |-> FALSE, retry |-> TRUE, data |-> Undefined]

\* run, step 4 and the return: the result once the port was seen open,
\* connected being what testConnection reported.
succeeded(port, connected) ==
  [success |-> TRUE, retry |-> FALSE,
   data |-> Obj([rojoPort |-> Num(port),
                 rojoUrl |-> Str("http://localhost:" \o ToString(port)),
                 rojoRunning |-> Bool(TRUE)])]

(***************************************************************************)
(* State.                                                                  *)
(***************************************************************************)
VARIABLES
  file,               \* the progress file on disk
  pc,                 \* where the wizard process is: "off" when none runs
  options,            \* the options of the running process
  context,            \* this.context
  currentStateIndex,  \* this.currentStateIndex
  completedStates,    \* this.completedStates
  saved,              \* run()'s local `saved`
  event,              \* history: the last thing that happened
  checkCalls,         \* history: calls of each state's check in this process
  runCalls,           \* history: calls of each state's run in this process
  retries,            \* history: {success:false, retry:true} results of each state's run
  ended,              \* history: how each state's last execution ended
  advances,           \* history: increments of currentStateIndex at each state
  firstInvoked,       \* history: the first state invoked in this process, or -1
  promptCount,        \* history: resume prompts issued by this process
  resumeAnswer,       \* history: "none", "yes" or "no"
  lastCheck,          \* history: the last check result
  lastResult,         \* history: the last result run() handled
  written,            \* history: the engine state the last saveProgress wrote
  failure,            \* history: how run() of this process rejected
  prevFailure,        \* history: how run() of the process resumed from rejected
  active,             \* history: the check and run calls that have not returned
  exitCode,           \* the status the last process exited with, -1 while one runs
  processes,          \* process.js: the registry entry of "rojo-server"
  children,           \* the managed child process and the signals sent to it
  waiting,            \* who awaits stop(): "signal" (cli.js cleanup), "settled" (cli.run)
  timer,              \* stop()'s 5 s timer: "off", "armed" or "fired"
  earlier,            \* the child of an earlier startBackground a stop still waits for
  cleanupCalls,       \* history: calls of a state's cleanup in this process
  fs,                 \* the condition of the file system the progress file is on
  rojo                \* rojoServer.run: where the call in progress is and its locals

engine == <<context, currentStateIndex, completedStates>>

history ==
  <<event, checkCalls, runCalls, retries, ended, advances, firstInvoked, promptCount,
    resumeAnswer, lastCheck, lastResult, written, failure, prevFailure>>

manager == <<processes, children, waiting, timer, earlier>>

env == <<fs, rojo>>

vars ==
  <<file, pc, options, engine, saved, history, active, exitCode, manager,
    cleanupCalls, env>>

ZeroCalls == [i \in Indices |-> 0]

NoneEnded == [i \in Indices |-> "none"]

NoFailure == [kind |-> "none", at |-> 0]

NothingWritten == [exists |-> FALSE]

\* The last saveProgress caught the error of its write.
WriteFailed == [exists |-> FALSE, failed |-> TRUE]

EngineState(index, completed, ctx) ==
  [exists |-> TRUE, currentStateIndex |-> index, completedStates |-> completed,
   context |-> ctx]

RECURSIVE SumUpTo(_, _)
SumUpTo(f, n) == IF n < 0 THEN 0 ELSE f[n] + SumUpTo(f, n - 1)

TotalRetries == SumUpTo(retries, NumStates - 1)

\* A count that is never kept: the retries of a process are without end.
BumpNothing(f, i) == f

Bump(f, i) == [f EXCEPT ![i] = @ + 1]

Init ==
  /\ file = NoFile
  /\ pc = "off"
  /\ options = [reset |-> FALSE]
  /\ context = InitialContext
  /\ currentStateIndex = 0
  /\ completedStates = <<>>
  /\ saved = Undefined
  /\ event = "exit"
  /\ checkCalls = ZeroCalls
  /\ runCalls = ZeroCalls
  /\ retries = ZeroCalls
  /\ ended = NoneEnded
  /\ advances = ZeroCalls
  /\ firstInvoked = -1
  /\ promptCount = 0
  /\ resumeAnswer = "none"
  /\ lastCheck = NoCheck
  /\ lastResult = NoResult
  /\ written = NothingWritten
  /\ failure = NoFailure
  /\ prevFailure = NoFailure
  /\ active = {}
  /\ exitCode = -1
  /\ processes = NoProcesses
  /\ earlier = NoChild
  /\ children = NoChild
  /\ waiting = {}
  /\ timer = "off"
  /\ cleanupCalls = 0
  /\ fs = "ok"
  /\ rojo = NoRojo

(***************************************************************************)
(* The wizard process.                                                     *)
(***************************************************************************)
\* A call of a state's check or run.
Invocation(index, fn) == [index |-> index, fn |-> fn]

\* The calls in flight once the engine has called inv.
invoke(act, inv) == act \cup {inv}

\* An engine that goes on without waiting for the call to return.
returnedNotAwaited(act, inv) == act

\* The calls in flight once the awaited call inv has returned or thrown.
returned(act, inv) == act \ {inv}

\* A loop that steps over the state after a completed one.
nextIndexSkipsOne(index) == index + 2

\* run(): `this.currentStateIndex++`.
nextIndex(index) == index + 1

\* index.js and cli.run start a process: the options are parsed, the engine
\* is constructed and run() goes as far as its first await, the resume prompt
\* when a record was loaded.  The event tells a reset that deleted a record
\* from the other starts.
Launch(reset) ==
  /\ pc = "off"
  /\ options' = [reset |-> reset]
  /\ context' = InitialContext
  /\ currentStateIndex' = 0
  /\ completedStates' = <<>>
  /\ IF ~reset
       THEN /\ file' = file
            /\ IF Truthy(loadProgress(Seen(file, fs)))
                 THEN /\ saved' = loadProgress(Seen(file, fs))
                      /\ pc' = "prompt"
                      /\ promptCount' = 1
                 ELSE /\ saved' = Undefined
                      /\ pc' = "loop"
                      /\ promptCount' = 0
       ELSE /\ saved' = Undefined
            /\ file' = unlinkSync(file, clearProgress(file), fs)
            /\ pc' = "loop"
            /\ promptCount' = 0
  /\ event' = IF reset /\ file.exists THEN "cleared" ELSE "launch"
  /\ checkCalls' = ZeroCalls
  /\ runCalls' = ZeroCalls
  /\ retries' = ZeroCalls
  /\ ended' = NoneEnded
  /\ advances' = ZeroCalls
  /\ firstInvoked' = -1
  /\ resumeAnswer' = "none"
  /\ lastCheck' = NoCheck
  /\ lastResult' = NoResult
  /\ written' = NothingWritten
  /\ failure' = NoFailure
  /\ prevFailure' =
       IF ~reset /\ Truthy(loadProgress(Seen(file, fs))) THEN prevFailure ELSE NoFailure
  /\ active' = {}
  /\ exitCode' = -1
  /\ processes' = NoProcesses
  /\ earlier' = NoChild
  /\ children' = NoChild
  /\ waiting' = {}
  /\ timer' = "off"
  /\ cleanupCalls' = 0
  /\ fs' = fs
  /\ rojo' = NoRojo

\* run(): prompt.confirm resolves; the record is restored or cleared.
AnswerResume(shouldResume) ==
  /\ pc = "prompt"
  /\ LET after == afterPrompt(shouldResume, saved, context, currentStateIndex,
                              completedStates, file)
     IN  /\ currentStateIndex' = after.currentStateIndex
         /\ completedStates' = after.completedStates
         /\ context' = after.context
         /\ file' = unlinkSync(file, after.file, fs)
  /\ resumeAnswer' = IF shouldResume THEN "yes" ELSE "no"
  /\ saved' = Undefined
  /\ pc' = "loop"
  /\ event' = "answer"
  /\ prevFailure' = IF shouldResume THEN prevFailure ELSE NoFailure
  /\ UNCHANGED <<options, checkCalls, runCalls, retries, ended, advances,
                 firstInvoked, promptCount, lastCheck, lastResult, written,
                 failure, active, exitCode, manager, cleanupCalls, env>>

\* run() and executeState: the loop picks states[currentStateIndex];
\* executeState validates it and calls its check, or its run when it has no
\* check.  An invalid state makes executeState throw.
BeginState ==
  /\ pc = "loop"
  /\ currentStateIndex < Len(states)
  /\ LET st == StateAt(currentStateIndex)
     IN  IF ~validState(st)
           THEN /\ pc' = "rejected"
                /\ failure' = rethrow([kind |-> "threw", at |-> currentStateIndex])
                /\ UNCHANGED <<checkCalls, runCalls, firstInvoked, active>>
           ELSE /\ failure' = failure
                /\ active' =
                     invoke(active, Invocation(currentStateIndex,
                                               IF st.check THEN "check" ELSE "run"))
                /\ firstInvoked' =
                     IF firstInvoked = -1 THEN currentStateIndex ELSE firstInvoked
                /\ IF st.check
                     THEN /\ pc' = "check"
                          /\ checkCalls' = Bump(checkCalls, currentStateIndex)
                          /\ runCalls' = runCalls
                     ELSE /\ pc' = "run"
                          /\ runCalls' = Bump(runCalls, currentStateIndex)
                          /\ checkCalls' = checkCalls
  /\ event' = "begin"
  /\ lastCheck' = NoCheck
  /\ lastResult' = NoResult
  /\ UNCHANGED <<file, options, engine, saved, retries, ended, advances,
                 promptCount, resumeAnswer, written, prevFailure, exitCode,
                 manager, cleanupCalls, env>>

\* run(): what the loop does with the result executeState returned, the
\* context being ctx by then.
HandleResult(result, ctx) ==
  LET index == currentStateIndex
      st == StateAt(index)
      completed == markCompleted(completedStates, st.name)
  IN  /\ context' = ctx
      /\ lastResult' = result
      /\ IF outcome(result) = "advance"
           THEN /\ completedStates' = completed
                /\ file' = writeFileSync(file, saveProgress(index, completed, ctx), fs)
                /\ written' =
                     IF fs \in {"readonly", "full"}
                       THEN WriteFailed
                       ELSE EngineState(index, completed, ctx)
                /\ currentStateIndex' = nextIndex(index)
                /\ advances' = [advances EXCEPT ![index] = @ + nextIndex(index) - index]
                /\ pc' = "loop"
                /\ UNCHANGED failure
           ELSE IF outcome(result) = "retry"
           THEN /\ pc' = "loop"
                /\ UNCHANGED <<file, currentStateIndex, completedStates,
                               advances, written, failure>>
           ELSE /\ pc' = "rejected"
                /\ failure' = rethrow([kind |-> "fatal", at |-> index])
                /\ UNCHANGED <<file, currentStateIndex, completedStates,
                               advances, written>>

\* executeState: the check resolves.  A skippable state returns at once and
\* run() handles the result; otherwise the state's run is called.
CheckReturns(checkResult) ==
  /\ pc = "check"
  /\ lastCheck' = checkResult
  /\ IF shouldSkip(checkResult)
       THEN /\ HandleResult(SkipResult, context)
            /\ event' = "skipped"
            /\ ended' = [ended EXCEPT ![currentStateIndex] = "skipped"]
            /\ active' = returned(active, Invocation(currentStateIndex, "check"))
            /\ UNCHANGED runCalls
       ELSE /\ pc' = "run"
            /\ runCalls' = Bump(runCalls, currentStateIndex)
            /\ active' =
                 invoke(returned(active, Invocation(currentStateIndex, "check")),
                        Invocation(currentStateIndex, "run"))
            /\ event' = "checked"
            /\ UNCHANGED <<file, engine, ended, advances, lastResult, written,
                           failure>>
  /\ UNCHANGED <<options, saved, checkCalls, retries, firstInvoked, promptCount,
                 resumeAnswer, prevFailure, exitCode, manager, cleanupCalls, env>>

\* executeState: the run resolves; its data is merged and run() handles the
\* result.
RunReturns(result) ==
  /\ pc = "run"
  /\ (~result.success /\ result.retry) => TotalRetries < MaxRetries
  /\ HandleResult(result, mergeData(context, result))
  /\ event' = "ran"
  /\ retries' =
       IF ~result.success /\ result.retry
         THEN Bump(retries, currentStateIndex)
         ELSE retries
  /\ ended' =
       [ended EXCEPT ![currentStateIndex] =
          IF result.success THEN "succeeded"
          ELSE IF result.retry THEN "retried"
          ELSE "failed"]
  /\ lastCheck' = NoCheck
  /\ active' = returned(active, Invocation(currentStateIndex, "run"))
  /\ UNCHANGED <<options, saved, checkCalls, runCalls, firstInvoked,
                 promptCount, resumeAnswer, prevFailure, exitCode, manager,
                 cleanupCalls, env>>

\* The check or the run of the state throws: run() logs and rethrows.
StateThrows ==
  /\ pc \in {"check", "run"}
  /\ pc' = "rejected"
  /\ failure' = rethrow([kind |-> "threw", at |-> currentStateIndex])
  /\ event' = "threw"
  /\ ended' = [ended EXCEPT ![currentStateIndex] = "threw"]
  /\ active' = returned(active, Invocation(currentStateIndex, pc))
  /\ UNCHANGED <<file, options, engine, saved, checkCalls, runCalls, retries,
                 advances, firstInvoked, promptCount, resumeAnswer, lastCheck,
                 lastResult, written, prevFailure, exitCode, manager,
                 cleanupCalls, env>>

\* run(): the loop ends, the progress file is cleared and run() resolves.
Complete ==
  /\ pc = "loop"
  /\ ~(currentStateIndex < Len(states))
  /\ file' = unlinkSync(file, clearProgress(file), fs)
  /\ pc' = "resolved"
  /\ event' = "complete"
  /\ UNCHANGED <<options, engine, saved, checkCalls, runCalls, retries, ended,
                 advances, firstInvoked, promptCount, resumeAnswer, lastCheck,
                 lastResult, written, failure, prevFailure, active, exitCode,
                 manager, cleanupCalls, env>>

\* The process ends with the status code: process.js's exit handler calls
\* stopAll, which runs as far as the first await of stop; of the process only
\* the progress file and the child are left.
Terminate(code, cause, procs, child) ==
  /\ pc' = "off"
  /\ exitCode' = code
  /\ event' = cause
  /\ processes' = NoProcesses
  /\ earlier' = NoChild
  /\ children' = stop(procs, child).children
  /\ waiting' = {}
  /\ timer' = "off"
  /\ prevFailure' = failure
  /\ options' = [reset |-> FALSE]
  /\ context' = InitialContext
  /\ currentStateIndex' = 0
  /\ completedStates' = <<>>
  /\ saved' = Undefined
  /\ checkCalls' = ZeroCalls
  /\ runCalls' = ZeroCalls
  /\ retries' = ZeroCalls
  /\ ended' = NoneEnded
  /\ advances' = ZeroCalls
  /\ firstInvoked' = -1
  /\ promptCount' = 0
  /\ resumeAnswer' = "none"
  /\ lastCheck' = NoCheck
  /\ lastResult' = NoResult
  /\ written' = NothingWritten
  /\ failure' = NoFailure
  /\ active' = {}
  /\ cleanupCalls' = 0
  /\ fs' = fs
  /\ rojo' = NoRojo

\* A cli.run that settles without waiting for stopAll.
staysUpNever(resolved, procs, child) == FALSE

\* Whether the process stays up after run() has settled: cli.run's stopAll
\* waits for the child's exit, or run() resolved while the child, already
\* being stopped, is still there to keep the event loop going.
staysUp(resolved, procs, child) ==
  \/ stop(procs, child).pending
  \/ resolved /\ child.st = "alive"

\* cli.run and main: run() has settled, stopAll returns at once and the
\* process exits, with status 1 when main's catch got the error of run().
Exit ==
  /\ pc \in {"resolved", "rejected"}
  /\ ~staysUp(pc = "resolved", processes, children)
  /\ Terminate(exitStatus(pc = "rejected"), "exit",
               stop(processes, children).processes,
               stop(processes, children).children)
  /\ UNCHANGED file

\* index.js: --help or --version prints and calls process.exit(0) before
\* cli.run is reached; nothing is constructed and the file is not read.
Usage(option) ==
  /\ pc = "off"
  /\ event' = option
  /\ exitCode' = 0
  /\ UNCHANGED <<file, pc, options, engine, saved, checkCalls, runCalls, retries,
                 ended, advances, firstInvoked, promptCount, resumeAnswer,
                 lastCheck, lastResult, written, failure, prevFailure, active,
                 manager, cleanupCalls, env>>

Next ==
  \/ \E reset \in BOOLEAN : Launch(reset)
  \/ \E shouldResume \in BOOLEAN : AnswerResume(shouldResume)
  \/ BeginState
  \/ \E checkResult \in CheckResults : CheckReturns(checkResult)
  \/ \E result \in RunResults : RunReturns(result)
  \/ StateThrows
  \/ Complete
  \/ Exit
  \/ \E option \in {"help", "version"} : Usage(option)

Spec == Init /\ [][Next]_vars

(***************************************************************************)
(* The managed process and the signals.  A signal is handled when the      *)
(* process is at an await: the resume prompt, a state's check or run, or   *)
(* cli.run's stopAll.  The listeners of SIGINT run in the order they were  *)
(* registered: process.js's (when cli.js is required), index.js's, which   *)
(* calls process.exit(0) at once, and cli.js's, which is never reached.    *)
(* SIGTERM has the listener of cli.js only.                                *)
(***************************************************************************)
AwaitPoints == {"prompt", "check", "run", "stopping"}

\* rojoServer.run: startBackground('rojo', ..., 'rojo-server') spawns the
\* child unless an entry with killed unset is there already.  The model
\* follows one child: none is spawned while an earlier one is alive.
StartBackground ==
  /\ earlier' = earlier
  /\ pc = "run"
  /\ StateAt(currentStateIndex).name = "rojoServer"
  /\ ~(processes.has /\ ~processes.killed)
  /\ children.st # "alive"
  /\ processes' = spawned.processes
  /\ children' = spawned.children
  /\ UNCHANGED <<file, pc, options, engine, saved, history, active, exitCode,
                 waiting, timer, cleanupCalls, env>>

\* cli.run: run() has settled and stopAll has to wait for the child's exit,
\* or run() resolved and the child being stopped keeps the process up.
Teardown ==
  /\ earlier' = earlier
  /\ pc \in {"resolved", "rejected"}
  /\ staysUp(pc = "resolved", processes, children)
  /\ pc' = "stopping"
  /\ event' = "teardown"
  /\ processes' = stop(processes, children).processes
  /\ children' = stop(processes, children).children
  /\ waiting' =
       IF stop(processes, children).pending THEN waiting \cup {"settled"} ELSE waiting
  /\ timer' = IF stop(processes, children).pending THEN "armed" ELSE timer
  /\ UNCHANGED <<file, options, engine, saved, checkCalls, runCalls, retries,
                 ended, advances, firstInvoked, promptCount, resumeAnswer,
                 lastCheck, lastResult, written, failure, prevFailure, active,
                 exitCode, cleanupCalls, env>>

\* The child exits, of itself or on a signal, and the wizard, if it is up,
\* gets the exit event at an await.  A stop that waits for an earlier child
\* has its listener on that child, not on this one.  A stop that waits for it clears its
\* timer, deletes the entry and resolves: cli.js's cleanup goes on to
\* process.exit(0), cli.run returns or throws to main, rojoServer.run goes
\* on to its prompt.
ChildExits ==
  /\ pc \in AwaitPoints \cup {"off"}
  /\ children.st = "alive"
  /\ LET child == [children EXCEPT !.st = "exited"]
     IN  IF pc = "off" \/ waiting = {} \/ earlier.st = "alive"
           THEN /\ children' = child
                /\ UNCHANGED <<file, pc, options, engine, saved, history, active,
                               exitCode, processes, waiting, timer, earlier,
                               cleanupCalls, env>>
         ELSE IF "signal" \in waiting
           THEN /\ Terminate(0, "stopped", NoProcesses, child)
                /\ file' = onSignal(file, currentStateIndex, completedStates, context)
         ELSE IF "settled" \in waiting
           THEN /\ Terminate(exitStatus(failure.kind # "none"), "exit", NoProcesses, child)
                /\ UNCHANGED file
         ELSE /\ children' = child
              /\ processes' = NoProcesses
              /\ earlier' = earlier
              /\ waiting' = {}
              /\ timer' = "off"
              /\ rojo' = [rojo EXCEPT !.pc = "notReady"]
              /\ UNCHANGED <<file, pc, options, engine, saved, history, active,
                             exitCode, cleanupCalls, fs>>

\* stop's timer fires after 5 s; the timer of a stop that waits for an
\* earlier child finds that child's killed flag set.
KillTimeout ==
  /\ earlier' = earlier
  /\ pc \in AwaitPoints
  /\ timer = "armed"
  /\ timer' = "fired"
  /\ IF earlier.st = "alive"
       THEN UNCHANGED <<processes, children>>
       ELSE /\ processes' = killTimeout(processes, children).processes
            /\ children' = killTimeout(processes, children).children
  /\ UNCHANGED <<file, pc, options, engine, saved, history, active, exitCode,
                 waiting, cleanupCalls, env>>

\* cli.run or rojoServer.run waits for a stop that cannot resolve, the child
\* having exited before stop listened for its exit: once the timer has fired
\* nothing is left on the event loop and the process ends with status 0, the
\* awaits of the engine, cli.run and main still pending.
Drain ==
  /\ pc = "stopping" \/ "cleanup" \in waiting
  /\ waiting # {}
  /\ children.st # "alive"
  /\ timer # "armed"
  /\ Terminate(0, "drained", processes, children)
  /\ UNCHANGED file

\* SIGINT: process.js's listener starts stopAll, index.js's listener exits.
Sigint ==
  /\ pc \in AwaitPoints
  /\ Terminate(0, "sigint", stop(processes, children).processes,
               stop(processes, children).children)
  /\ file' = onSignal(file, currentStateIndex, completedStates, context)

\* SIGTERM: cli.js's listener awaits cleanup, that is stopAll, and exits; the
\* engine goes on while stop waits for the child's exit.
Sigterm ==
  /\ pc \in AwaitPoints
  /\ file' = onSignal(file, currentStateIndex, completedStates, context)
  /\ IF ~stop(processes, children).pending
       THEN Terminate(0, "sigterm", stop(processes, children).processes,
                      stop(processes, children).children)
       ELSE /\ processes' = stop(processes, children).processes
            /\ children' = stop(processes, children).children
            /\ earlier' = earlier
            /\ waiting' = waiting \cup {"signal"}
            /\ timer' = "armed"
            /\ event' = "sigterm"
            /\ UNCHANGED <<pc, options, engine, saved, checkCalls, runCalls,
                           retries, ended, advances, firstInvoked, promptCount,
                           resumeAnswer, lastCheck, lastResult, written, failure,
                           prevFailure, active, exitCode, cleanupCalls, env>>

\* The steps of the wizard with the managed process and the signals.
NextInterrupt ==
  \/ \E reset \in BOOLEAN : Launch(reset)
  \/ \E shouldResume \in BOOLEAN : AnswerResume(shouldResume)
  \/ BeginState
  \/ \E checkResult \in CheckResults : CheckReturns(checkResult)
  \/ \E result \in InterruptRunResults : RunReturns(result)
  \/ StateThrows
  \/ Complete
  \/ Exit
  \/ \E option \in {"help", "version"} : Usage(option)
  \/ StartBackground
  \/ Teardown
  \/ ChildExits
  \/ KillTimeout
  \/ Drain
  \/ Sigint
  \/ Sigterm

SpecInterrupt == Init /\ [][NextInterrupt]_vars

(***************************************************************************)
(* startBackground and stop on the same name, interleaved.  stop has sent  *)
(* SIGTERM and waits for the exit of the child it read from the registry;  *)
(* before that child exits, startBackground finds an entry whose killed    *)
(* flag is set, spawns a second child and registers it under the name.     *)
(* The model follows these two children and one waiting stop.              *)
(***************************************************************************)
\* startBackground while a stop waits for the child registered before: the
\* entry's killed flag is set, so a new child is spawned and
\* processes.set(name, processInfo) replaces the entry.
StartBackgroundAgain ==
  /\ pc = "run"
  /\ StateAt(currentStateIndex).name = "rojoServer"
  /\ ~(processes.has /\ ~processes.killed)
  /\ children.st = "alive"
  /\ waiting # {}
  /\ earlier.st = "none"
  /\ earlier' = children
  /\ processes' = spawned.processes
  /\ children' = spawned.children
  /\ UNCHANGED <<file, pc, options, engine, saved, history, active, exitCode,
                 waiting, timer, cleanupCalls, env>>

\* The earlier child exits and the listener of the stop that waits for it
\* runs: clearTimeout, processes.delete(name), whatever the entry holds by
\* now, and resolve; cli.js's cleanup goes on to process.exit(0), or cli.run
\* returns or throws to main.  The exit listener of process.js then calls
\* stopAll on the registry as the stop left it.
EarlierExits ==
  /\ pc \in AwaitPoints
  /\ earlier.st = "alive"
  /\ waiting # {}
  /\ IF "signal" \in waiting
       THEN /\ Terminate(0, "stopped", NoProcesses, children)
            /\ file' = onSignal(file, currentStateIndex, completedStates, context)
       ELSE /\ Terminate(exitStatus(failure.kind # "none"), "exit", NoProcesses, children)
            /\ UNCHANGED file

\* cli.run's stopAll and cli.js's SIGTERM listener while no stop waits for
\* an earlier child.
TeardownLater == earlier.st = "none" /\ Teardown

SigtermOnce == earlier.st = "none" /\ Sigterm

\* The steps of the wizard with SIGTERM, a second startBackground and the
\* exits of both children; one stop waits at a time.
NextRestart ==
  \/ Launch(FALSE)
  \/ \E shouldResume \in BOOLEAN : AnswerResume(shouldResume)
  \/ BeginState
  \/ CheckReturns(NoCheck)
  \/ \E result \in InterruptRunResults : RunReturns(result)
  \/ Complete
  \/ Exit
  \/ StartBackground
  \/ StartBackgroundAgain
  \/ TeardownLater
  \/ SigtermOnce
  \/ ChildExits
  \/ EarlierExits
  \/ KillTimeout
  \/ Drain

SpecRestart == Init /\ [][NextRestart]_vars

(***************************************************************************)
(* rojoServer.run, one action for each stretch between two awaits.  The    *)
(* engine is at the await of the state's run all the while.                *)
(***************************************************************************)
InRojo ==
  /\ pc = "run"
  /\ StateAt(currentStateIndex).name = "rojoServer"

\* run is called: without a project path it returns at once, else it
\* probes the default port.
RojoBegins ==
  /\ InRojo
  /\ rojo.call # runCalls[currentStateIndex]
  /\ rojo' =
       IF ~Truthy(Get(Obj(context), "projectPath"))
         THEN [NoRojo EXCEPT !.call = runCalls[currentStateIndex], !.pc = "done",
                             !.result = NoProject]
         ELSE [NoRojo EXCEPT !.call = runCalls[currentStateIndex], !.pc = "probing"]
  /\ UNCHANGED <<file, pc, options, engine, saved, history, active, exitCode,
                 manager, cleanupCalls, fs>>

\* isPortAvailable resolves.
RojoProbe(available) ==
  /\ InRojo
  /\ rojo.pc = "probing"
  /\ rojo' = afterProbe(rojo, available)
  /\ UNCHANGED <<file, pc, options, engine, saved, history, active, exitCode,
                 manager, cleanupCalls, fs>>

\* startBackground: an entry whose child was not killed is returned as it
\* is; otherwise the child is spawned and registered, and the promise
\* resolves a second later.  The model follows one child.
RojoStart ==
  /\ earlier' = earlier
  /\ InRojo
  /\ rojo.pc = "starting"
  /\ IF processes.has /\ ~processes.killed
       THEN /\ rojo' = [rojo EXCEPT !.pc = "waiting"]
            /\ UNCHANGED <<processes, children>>
       ELSE /\ children.st # "alive"
            /\ processes' = spawned.processes
            /\ children' = spawned.children
            /\ rojo' = [rojo EXCEPT !.pc = "waiting", !.started = TRUE]
  /\ UNCHANGED <<file, pc, options, engine, saved, history, active, exitCode,
                 waiting, timer, cleanupCalls, fs>>

\* waitForPort resolves: with true run goes on to testConnection, with
\* false, after the timeout, it awaits process.stop('rojo-server') and then
\* the prompt.
RojoPortWait(portReady) ==
  /\ InRojo
  /\ rojo.pc = "waiting"
  /\ IF portReady
       THEN /\ rojo' = [rojo EXCEPT !.pc = "testing", !.portReady = "yes"]
            /\ UNCHANGED manager
       ELSE /\ processes' = stop(processes, children).processes
            /\ children' = stop(processes, children).children
            /\ earlier' = earlier
            /\ IF stop(processes, children).pending
                 THEN /\ waiting' = waiting \cup {"cleanup"}
                      /\ timer' = "armed"
                      /\ rojo' = [rojo EXCEPT !.pc = "cleanup", !.portReady = "no"]
                 ELSE /\ UNCHANGED <<waiting, timer>>
                      /\ rojo' = [rojo EXCEPT !.pc = "notReady", !.portReady = "no"]
  /\ UNCHANGED <<file, pc, options, engine, saved, history, active, exitCode,
                 cleanupCalls, fs>>

\* testConnection resolves, with success or without: run returns success.
RojoTest(connected) ==
  /\ InRojo
  /\ rojo.pc = "testing"
  /\ rojo' = [rojo EXCEPT !.pc = "done",
                          !.connected = IF connected THEN "yes" ELSE "no",
                          !.result = succeeded(rojo.selectedPort, connected)]
  /\ UNCHANGED <<file, pc, options, engine, saved, history, active, exitCode,
                 manager, cleanupCalls, fs>>

\* The user answers 'Try again?'.
RojoAnswer(retry) ==
  /\ InRojo
  /\ rojo.pc \in {"occupied", "notReady"}
  /\ rojo' = [rojo EXCEPT !.pc = "done",
                          !.answer = IF retry THEN "yes" ELSE "no",
                          !.result = declined(retry)]
  /\ UNCHANGED <<file, pc, options, engine, saved, history, active, exitCode,
                 manager, cleanupCalls, fs>>

\* run returns and the engine handles its result.
RojoReturns ==
  /\ InRojo
  /\ rojo.pc = "done"
  /\ rojo.call = runCalls[currentStateIndex]
  /\ RunReturns(rojo.result)

\* The run of another step returns.
StepReturns(result) ==
  /\ pc = "run"
  /\ StateAt(currentStateIndex).name # "rojoServer"
  /\ RunReturns(result)

\* The steps of the wizard with rojoServer.run spelt out.
NextRojo ==
  \/ Launch(FALSE)
  \/ \E shouldResume \in BOOLEAN : AnswerResume(shouldResume)
  \/ BeginState
  \/ CheckReturns(NoCheck)
  \/ \E result \in RojoRunResults : StepReturns(result)
  \/ RojoBegins
  \/ \E available \in BOOLEAN : RojoProbe(available)
  \/ RojoStart
  \/ \E portReady \in BOOLEAN : RojoPortWait(portReady)
  \/ \E connected \in BOOLEAN : RojoTest(connected)
  \/ \E retry \in BOOLEAN : RojoAnswer(retry)
  \/ RojoReturns
  \/ Complete
  \/ Exit
  \/ Teardown
  \/ ChildExits
  \/ KillTimeout
  \/ Drain

SpecRojo == Init /\ [][NextRojo]_vars

\* The wizard process is killed by a signal it has no listener for (SIGKILL,
\* or SIGHUP when the terminal is closed; cli.js listens for SIGINT and
\* SIGTERM only): it ends wherever it is, between two statements as well as
\* at an await, no listener runs, and the progress file and the child stay
\* as they are.
Killed ==
  /\ pc # "off"
  /\ Terminate(137, "killed", NoProcesses, children)
  /\ UNCHANGED file

\* The steps of the wizard with rojoServer.run spelt out, in processes that
\* may be killed and resumed.
NextResume ==
  \/ NextRojo
  \/ Killed

SpecResume == Init /\ [][NextResume]_vars

\* The steps of the wizard with the results that tell a shallow merge from
\* a deep one.
NextMerge ==
  \/ Launch(FALSE)
  \/ \E shouldResume \in BOOLEAN : AnswerResume(shouldResume)
  \/ BeginState
  \/ CheckReturns(NoCheck)
  \/ \E result \in MergeRunResults : RunReturns(result)
  \/ Complete
  \/ Exit

SpecMerge == Init /\ [][NextMerge]_vars

(***************************************************************************)
(* The file system.  Its condition changes while no process runs or while  *)
(* the process is at an await; the calls of the engine on the progress     *)
(* file are synchronous and meet the condition of the moment.              *)
(***************************************************************************)
Degrade(cond) ==
  /\ pc \in {"off", "prompt", "check", "run"}
  /\ cond # fs
  /\ fs' = cond
  /\ UNCHANGED <<file, pc, options, engine, saved, history, active, exitCode,
                 manager, cleanupCalls, rojo>>

\* The steps of the wizard on a file system whose calls can fail.
NextFaults ==
  \/ \E reset \in BOOLEAN : Launch(reset)
  \/ \E shouldResume \in BOOLEAN : AnswerResume(shouldResume)
  \/ BeginState
  \/ \E checkResult \in CheckResults : CheckReturns(checkResult)
  \/ \E result \in InterruptRunResults : RunReturns(result)
  \/ StateThrows
  \/ Complete
  \/ Exit
  \/ \E cond \in Conditions : Degrade(cond)

SpecFaults == Init /\ [][NextFaults]_vars

(***************************************************************************)
(* Progress of run().  The prompt is answered, every call of a check or a  *)
(* run returns or throws, and the stretches of run() between two awaits    *)
(* are executed; the results that ask for a retry are at most MaxRetries   *)
(* in a process.  When a process is started, and when it exits, is left    *)
(* open.                                                                   *)
(***************************************************************************)
NextLive ==
  \/ \E reset \in BOOLEAN : Launch(reset)
  \/ \E shouldResume \in BOOLEAN : AnswerResume(shouldResume)
  \/ BeginState
  \/ \E checkResult \in CheckResults : CheckReturns(checkResult)
  \/ \E result \in InterruptRunResults : RunReturns(result)
  \/ StateThrows
  \/ Complete
  \/ Exit

\* An await of run() ends: the prompt resolves, the check or the run
\* returns or throws.
AwaitEnds ==
  \/ \E shouldResume \in BOOLEAN : AnswerResume(shouldResume)
  \/ \E checkResult \in CheckResults : CheckReturns(checkResult)
  \/ \E result \in InterruptRunResults : RunReturns(result)
  \/ StateThrows

SpecLive ==
  /\ Init
  /\ [][NextLive]_vars
  /\ WF_vars(AwaitEnds)
  /\ WF_vars(BeginState)
  /\ WF_vars(Complete)

(***************************************************************************)
(* Properties.                                                             *)
(***************************************************************************)
\* The names of the first k states of the list, in list order.
FirstNames(k) == [j \in 1..k |-> states[j].name]

\* The states that ended completed in this process: skipped, or run with
\* success.
Completed == {i \in Indices : ended[i] \in {"skipped", "succeeded"}}

\* The record a file holds, field by field.
RecordIndex(f) == Get(loadProgress(f), "currentStateIndex").n

RecordCompleted(f) ==
  LET c == Get(loadProgress(f), "completedStates")
  IN  [j \in DOMAIN c.a |-> c.a[j].s]

RecordContext(f) == Get(loadProgress(f), "context").f

\* C1 (sequential progress): in a process that restored no record, once the
\* first K states have each completed on their first invocation, with no
\* retry and no failure, currentStateIndex is K and completedStates is the
\* names of states 0..K-1 in list order.
C1_SequentialProgress ==
  LET K == Cardinality(Completed)
  IN  ( /\ pc \notin {"off", "prompt"}
        /\ resumeAnswer # "yes"
        /\ TotalRetries = 0
        /\ Completed = 0..(K - 1)
        /\ \A i \in Completed : checkCalls[i] <= 1 /\ runCalls[i] <= 1 )
      => /\ currentStateIndex = K
         /\ completedStates = FirstNames(K)

\* Every state of the list has completed at its first invocation, some by
\* run and some by skip, in a process that started fresh.
C1_Witness ==
  /\ pc = "resolved"
  /\ resumeAnswer # "yes"
  /\ TotalRetries = 0
  /\ Completed = Indices
  /\ \E i \in Indices : ended[i] = "succeeded"
  /\ currentStateIndex = NumStates

\* C2 (retry does not advance): a state whose run returned
\* {success:false, retry:true} M times and then success has had its run
\* called exactly M+1 times and has advanced currentStateIndex exactly once,
\* to the index a success at the first call leads to; a state that has not
\* completed has not advanced it, however often it asked for a retry.
C2_RetryDoesNotAdvance ==
  \A i \in Indices :
    /\ advances[i] <= 1
    /\ ended[i] \in {"none", "retried", "failed", "threw"} => advances[i] = 0
    /\ ended[i] = "succeeded" =>
         /\ runCalls[i] = retries[i] + 1
         /\ advances[i] = 1
         /\ currentStateIndex > i
         /\ (event = "ran" /\ written.exists /\ written.currentStateIndex = i)
              => currentStateIndex = i + 1

\* A state's run asked for a retry as often as the bound allows and then
\* succeeded.
C2_Witness ==
  \E i \in Indices :
    /\ event = "ran"
    /\ ended[i] = "succeeded"
    /\ retries[i] = MaxRetries
    /\ runCalls[i] = MaxRetries + 1
    /\ currentStateIndex = i + 1

\* C3 (skip bypasses run): when a state's check returns found and canSkip,
\* the engine does not call the state's run in that iteration, adds the
\* state's name to completedStates, writes a progress record and increments
\* currentStateIndex.
C3_SkipBypassesRun ==
  [][ \A checkResult \in CheckResults :
        ( /\ pc = "check"
          /\ event' \in {"skipped", "checked"}
          /\ lastCheck' = checkResult
          /\ checkResult.found /\ checkResult.canSkip )
        => /\ pc' # "run"
           /\ runCalls' = runCalls
           /\ \E j \in DOMAIN completedStates' :
                completedStates'[j] = StateAt(currentStateIndex).name
           /\ file'.exists
           /\ file' = saveProgress(currentStateIndex, completedStates', context')
           /\ \E j \in DOMAIN RecordCompleted(file') :
                RecordCompleted(file')[j] = StateAt(currentStateIndex).name
           /\ currentStateIndex' = currentStateIndex + 1 ]_vars

\* A state has just been skipped on a check that found it and allows the
\* skip, its run never called.
C3_Witness ==
  \E i \in Indices :
    /\ event = "skipped"
    /\ lastCheck.found /\ lastCheck.canSkip
    /\ ended[i] = "skipped"
    /\ runCalls[i] = 0
    /\ currentStateIndex = i + 1

\* C4 (data of a failed run is discarded): a run that returns success:false
\* leaves the context as it was before the call, whatever data it returns.
C4_FailureLeavesContext ==
  [][ (pc = "run" /\ event' = "ran" /\ ~lastResult'.success)
        => context' = context ]_vars

\* Whether the record in file f lists states 0..k as completed.
ListsThrough(f, k) ==
  \A j \in 0..k :
    /\ f.exists
    /\ \E n \in DOMAIN RecordCompleted(f) : RecordCompleted(f)[n] = StateAt(j).name

\* C5 (fatal abort preserves resumability): when the run of state K returns
\* success:false without retry:true, run() rejects, no state after K has had
\* its check or run called, the progress file is neither rewritten nor
\* deleted and its record lists the states up to K-1 as completed; a process
\* whose run() has rejected calls nothing more and leaves the file as it is.
C5_FatalAbort ==
  [][ /\ ( /\ pc = "run"
           /\ event' = "ran"
           /\ ~lastResult'.success /\ ~lastResult'.retry )
        => /\ pc' = "rejected"
           /\ file' = file
           /\ ListsThrough(file', currentStateIndex - 1)
           /\ \A j \in Indices :
                j > currentStateIndex => checkCalls'[j] = 0 /\ runCalls'[j] = 0
      /\ pc = "rejected"
        => /\ pc' = "off"
           /\ file' = file ]_vars

\* run() has rejected on a fatal result of a state after the first, the file
\* holding the record written for the state before it.
C5_Witness ==
  /\ pc = "rejected"
  /\ event = "ran"
  /\ failure.kind = "fatal"
  /\ failure.at >= 1
  /\ ended[failure.at] = "failed"
  /\ file.exists
  /\ ListsThrough(file, failure.at - 1)

\* C6 (resume at the failed state): a process that resumes from the record
\* left by a fatal failure at state K >= 1 invokes state K first and invokes
\* no state before K.
C6_ResumeAtFailedState ==
  ( /\ resumeAnswer = "yes"
    /\ prevFailure.kind = "fatal"
    /\ prevFailure.at >= 1 )
  => /\ firstInvoked \in {-1, prevFailure.at}
     /\ \A j \in Indices :
          j < prevFailure.at => checkCalls[j] = 0 /\ runCalls[j] = 0

\* C7 (clean completion clears state): once run() has resolved, every state
\* having run successfully or been skipped, the progress file is gone and
\* loadProgress returns null.
C7_CompletionClearsProgress ==
  pc = "resolved" =>
    /\ ~file.exists
    /\ loadProgress(file) = Null

\* run() has resolved after states completed by run and by skip, records
\* having been written on the way.
C7_Witness ==
  /\ pc = "resolved"
  /\ written.exists
  /\ \E i \in Indices : ended[i] = "succeeded"
  /\ \E i \in Indices : ended[i] = "skipped"
  /\ ~file.exists

\* What a new engine over the same state list holds after loading the
\* record of file f and restoring it.
RestoredFrom(f) == restoreProgress(loadProgress(f), InitialContext)

\* A value with every object member whose value is undefined left out.
RECURSIVE WithoutUndefined(_)
WithoutUndefined(v) ==
  IF v.t = "object"
    THEN Obj([k \in {j \in DOMAIN v.f : v.f[j] # Undefined} |->
                WithoutUndefined(v.f[k])])
    ELSE v

\* C8 (resume fidelity), as stated: loading the record saveProgress wrote and
\* restoring it in a new engine yields the currentStateIndex, the
\* completedStates and the Context that were saved.
C8_ResumeFidelity ==
  (written.exists /\ file.exists) =>
    /\ RestoredFrom(file).currentStateIndex = written.currentStateIndex
    /\ RestoredFrom(file).completedStates = written.completedStates
    /\ RestoredFrom(file).context = written.context

\* C8 (resume fidelity), amended: loading the record saveProgress wrote and
\* restoring it in a new engine yields the currentStateIndex and the
\* completedStates that were saved, and the saved Context without the object
\* members whose value is undefined.
C8_ResumeFidelityDefined ==
  (written.exists /\ file.exists) =>
    /\ RestoredFrom(file).currentStateIndex = written.currentStateIndex
    /\ RestoredFrom(file).completedStates = written.completedStates
    /\ RestoredFrom(file).context = WithoutUndefined(Obj(written.context)).f

\* A record has been written for a state after the first, from a Context in
\* which a key holds undefined and another holds an object.
C8_Witness ==
  /\ written.exists
  /\ file.exists
  /\ written.currentStateIndex >= 1
  /\ Len(written.completedStates) >= 2
  /\ "studioAge" \in DOMAIN written.context
  /\ written.context["studioAge"] = Undefined
  /\ written.context["installedTools"] # EmptyObject
  /\ "studioAge" \notin DOMAIN RestoredFrom(file).context

\* C9 (resume prompt): a process issues the resume prompt exactly when reset
\* was not requested and the progress file holds a record; it issues it once;
\* the prompt is answered before the check or run of any state is called; on
\* a yes the engine's currentStateIndex, completedStates and Context are
\* those of the record.
C9_ResumePrompt ==
  [][ /\ (pc = "off" /\ pc' # "off")
        => /\ (pc' = "prompt") <=> (~options'.reset /\ file.exists)
           /\ promptCount' = (IF pc' = "prompt" THEN 1 ELSE 0)
      /\ (pc # "off" /\ pc' # "off")
        => /\ promptCount' = promptCount
           /\ pc' # "prompt"
      /\ pc = "prompt"
        => /\ checkCalls = ZeroCalls /\ runCalls = ZeroCalls
           /\ firstInvoked = -1
           /\ event' = "answer"
           /\ checkCalls' = ZeroCalls /\ runCalls' = ZeroCalls
      /\ (pc = "prompt" /\ resumeAnswer' = "yes")
        => /\ file' = file
           /\ currentStateIndex' = RecordIndex(file)
           /\ completedStates' = RecordCompleted(file)
           /\ context' = RecordContext(file) ]_vars

\* The prompt has been answered yes and the engine holds a record written
\* for a state after the first, whose Context differs from the constructor's.
C9_Witness ==
  /\ event = "answer"
  /\ resumeAnswer = "yes"
  /\ promptCount = 1
  /\ ~options.reset
  /\ currentStateIndex >= 1
  /\ Len(completedStates) >= 2
  /\ context # InitialContext
  /\ context = RecordContext(file)

\* C10 (declined resume): when the user declines to resume, the progress
\* file is deleted before any state executes and the engine starts from
\* index 0 with empty completedStates and the constructor's Context; the
\* first state invoked is state 0.
C10_DeclineStartsFresh ==
  resumeAnswer = "no" =>
    /\ firstInvoked \in {-1, 0}
    /\ firstInvoked = -1 =>
         /\ ~file.exists
         /\ currentStateIndex = 0
         /\ completedStates = <<>>
         /\ context = InitialContext

\* The user has declined to resume and state 0 has just been invoked, the
\* file gone.
C10_Witness ==
  /\ resumeAnswer = "no"
  /\ promptCount = 1
  /\ event = "begin"
  /\ firstInvoked = 0
  /\ checkCalls[0] = 1
  /\ ~file.exists
  /\ context = InitialContext

\* C11 (reset): a process started with reset requested loads no progress
\* record and issues no resume prompt; a record left by an earlier process is
\* deleted before the check or run of any state is called; the engine starts
\* at index 0 and the first state it invokes is state 0.
C11_ResetStartsClean ==
  [][ /\ (pc = "off" /\ pc' # "off" /\ options'.reset)
        => /\ pc' = "loop"
           /\ saved' = Undefined
           /\ promptCount' = 0
           /\ ~file'.exists
           /\ loadProgress(file') = Null
           /\ currentStateIndex' = 0
           /\ completedStates' = <<>>
           /\ checkCalls' = ZeroCalls /\ runCalls' = ZeroCalls
      /\ (pc # "off" /\ pc' # "off" /\ options.reset)
        => /\ pc' # "prompt"
           /\ promptCount' = 0
           /\ resumeAnswer' = "none"
           /\ saved' = Undefined
           /\ firstInvoked' \in {-1, 0} ]_vars

\* A process has just been started with reset over the record an earlier
\* process left: the record is gone, no prompt was issued and no state has
\* been invoked yet.
C11_Witness ==
  /\ options.reset
  /\ event = "cleared"
  /\ pc = "loop"
  /\ promptCount = 0
  /\ firstInvoked = -1
  /\ currentStateIndex = 0
  /\ ~file.exists

\* C12 (Context is the merge of the successful data): in a process that
\* restored no record the Context starts empty, a run that returns success
\* with a data object changes it to the shallow merge of that object over it,
\* and nothing else changes it, so that it holds the keys of the data of the
\* successful runs and no other key.
C12_ContextIsMergeOfSuccesses ==
  [][ /\ (pc = "off" /\ pc' # "off")
        => context' = EmptyObject.f
      /\ (pc # "off" /\ pc' # "off" /\ resumeAnswer' # "yes")
        => context' =
             IF /\ pc = "run" /\ event' = "ran"
                /\ lastResult'.success
                /\ lastResult'.data.t = "object"
               THEN Spread(context, lastResult'.data.f)
               ELSE context ]_vars

\* C13 (order of the effects of a completed state): when a state completes,
\* by a successful run or by a skip, its data is merged into the Context and
\* its name is in completedStates before the progress record is written, and
\* the record is written before currentStateIndex is incremented: the record
\* holds the merged Context and the state's name, and the index of the state
\* itself, one less than the index the engine goes on with.
C13_EffectOrder ==
  [][ ( /\ pc \in {"check", "run"}
        /\ event' \in {"ran", "skipped"}
        /\ lastResult'.success )
      => /\ context' = mergeData(context, lastResult')
         /\ \E j \in DOMAIN completedStates' :
              completedStates'[j] = StateAt(currentStateIndex).name
         /\ file'.exists
         /\ RecordContext(file') = WithoutUndefined(Obj(context')).f
         /\ lastResult'.data.t = "object" =>
              \A k \in DOMAIN lastResult'.data.f :
                lastResult'.data.f[k] # Undefined =>
                  /\ k \in DOMAIN RecordContext(file')
                  /\ RecordContext(file')[k] = JSONValue(lastResult'.data.f[k])
         /\ RecordCompleted(file') = completedStates'
         /\ RecordIndex(file') = currentStateIndex
         /\ currentStateIndex' = RecordIndex(file') + 1 ]_vars

\* A state after the first has just run with success and returned data: the
\* record on file holds that data, the state's name and the state's index.
C13_Witness ==
  /\ event = "ran"
  /\ lastResult.success
  /\ lastResult.data = DataStudio
  /\ currentStateIndex >= 2
  /\ file.exists
  /\ RecordIndex(file) = currentStateIndex - 1
  /\ RecordCompleted(file)[Len(RecordCompleted(file))] =
       StateAt(currentStateIndex - 1).name
  /\ RecordContext(file)["installedTools"] = DataStudio.f["installedTools"]

\* C14 (a retry request always repeats the state): whenever the result of a
\* run has retry true, whatever its other fields, currentStateIndex and
\* completedStates are left as they were, no progress record is written and
\* the engine goes back to the loop at the same state.
C14_RetryAlwaysRepeats ==
  [][ (pc = "run" /\ event' = "ran" /\ lastResult'.retry)
      => /\ currentStateIndex' = currentStateIndex
         /\ completedStates' = completedStates
         /\ file' = file
         /\ written' = written
         /\ pc' = "loop" ]_vars

\* C15 (only a retry repeats a state): within one process a state's run is
\* called a second or later time only when the state's previous run returned
\* a retry request and no other state was taken up in between, so that it has
\* been called at most once more than it asked for a retry; a state that has
\* completed, by success or by skip, has neither its check nor its run called
\* again.
C15_RepeatOnlyOnRetry ==
  [][ (pc # "off" /\ pc' # "off") =>
        \A i \in Indices :
          /\ (runCalls'[i] > runCalls[i] /\ runCalls[i] >= 1)
               => /\ ended[i] = "retried"
                  /\ currentStateIndex = i
                  /\ runCalls[i] = retries[i]
          /\ runCalls'[i] <= retries'[i] + 1
          /\ ended[i] \in {"skipped", "succeeded"}
               => /\ checkCalls'[i] = checkCalls[i]
                  /\ runCalls'[i] = runCalls[i] ]_vars

\* A state after a completed one is being run for the third time, its two
\* earlier runs having asked for a retry, while the completed state before it
\* was run once.
C15_Witness ==
  \E i \in Indices :
    /\ i >= 1
    /\ pc = "run"
    /\ currentStateIndex = i
    /\ ended[i] = "retried"
    /\ retries[i] = 2
    /\ runCalls[i] = 3
    /\ ended[i - 1] = "succeeded"
    /\ runCalls[i - 1] = 1

\* C16 (one state executes at a time): at most one call of a check or a run
\* is in flight at any time; the engine calls a check or a run only when no
\* earlier call is still in flight, and the call it makes is of the state at
\* currentStateIndex, in retries and after a resume as well.
C16_OneStepAtATime ==
  [][ /\ Cardinality(active') <= 1
      /\ \A inv \in active' \ active :
           /\ active' = {inv}
           /\ inv.index = currentStateIndex'
           /\ inv.fn = pc'
      /\ (pc' \in {"check", "run"}) <=> (active' # {}) ]_vars

\* In a process that resumed from a record, a state's run is in flight again
\* after it asked for a retry.
C16_Witness ==
  /\ resumeAnswer = "yes"
  /\ pc = "run"
  /\ retries[currentStateIndex] >= 1
  /\ runCalls[currentStateIndex] >= 2
  /\ active = {Invocation(currentStateIndex, "run")}

\* How a process that a signal ended went off: at once on SIGINT, at once on
\* SIGTERM, or on SIGTERM once the child it waited for had exited.
InterruptEvents == {"sigint", "sigterm", "stopped"}

\* C17 (cleanup on interruption): when SIGINT or SIGTERM ends the process
\* while the check or run of a state that has a cleanup is in flight, that
\* state's cleanup has been called before the process exits.
C17_CleanupOnSignal ==
  [][ ( /\ pc # "off" /\ pc' = "off"
        /\ event' \in InterruptEvents
        /\ \E inv \in active : StateAt(inv.index).cleanup )
      => cleanupCalls >= 1 ]_vars

\* C18 (managed processes on SIGINT): when SIGINT ends the process while the
\* managed child is registered and running, the child has been sent SIGTERM
\* and, by the time the process is gone, has exited or has been sent
\* SIGKILL: it does not outlive the wizard.
C18_SigintStopsManaged ==
  [][ ( /\ pc # "off" /\ pc' = "off"
        /\ event' = "sigint"
        /\ processes.has /\ children.st = "alive" )
      => /\ children'.SIGTERM
         /\ children'.st # "alive" \/ children'.SIGKILL ]_vars

C20_ExitStatus ==
  [][ /\ (pc = "off" /\ event' \in {"help", "version"} /\ exitCode' # exitCode)
        => exitCode' = 0
      /\ ( /\ pc # "off" /\ pc' = "off"
           /\ event' \notin InterruptEvents
           /\ "signal" \notin waiting )
        => exitCode' = (IF failure.kind = "none" THEN 0 ELSE 1) ]_vars

\* C21 (a failed write of the record is not fatal): when a state is skipped
\* or its run succeeds while the file system refuses writes, saveProgress
\* catches the error: run() does not reject, the state's data is merged
\* into the context, its name is in completedStates, currentStateIndex goes
\* up by one and the loop goes on.
C21_SaveFailureIsSwallowed ==
  [][ ( /\ pc \in {"check", "run"}
        /\ event' \in {"ran", "skipped"}
        /\ lastResult'.success
        /\ fs \in {"readonly", "full"} )
      => /\ pc' = "loop"
         /\ failure' = failure
         /\ currentStateIndex' = currentStateIndex + 1
         /\ context' = mergeData(context, lastResult')
         /\ \A j \in DOMAIN completedStates : completedStates'[j] = completedStates[j]
         /\ \E j \in DOMAIN completedStates' :
              completedStates'[j] = StateAt(currentStateIndex).name ]_vars

\* The write for a state failed in a process that found no file, and the
\* engine has gone on to call the check of the next state with the data and
\* the name of the state in memory.
C21_Witness ==
  /\ pc = "check"
  /\ event = "begin"
  /\ written = WriteFailed
  /\ ~file.exists
  /\ currentStateIndex = 1
  /\ completedStates = <<StateAt(0).name>>
  /\ context["os"] = DataWelcome.f["os"]

\* C22 (an unusable progress file counts as none): a process started
\* without --reset whose progress file is missing, cannot be read or does
\* not parse gets null from loadProgress: it shows no resume prompt, leaves
\* the file alone and enters the loop at index 0 with the context of the
\* constructor and no completed state.
C22_UnusableFileStartsFresh ==
  [][ ( /\ pc = "off"
        /\ pc' # "off"
        /\ ~options'.reset
        /\ \/ ~file.exists
           \/ fs = "unreadable"
           \/ ~Parses(file.data) )
      => /\ pc' = "loop"
         /\ promptCount' = 0
         /\ saved' = Undefined
         /\ currentStateIndex' = 0
         /\ completedStates' = <<>>
         /\ context' = InitialContext
         /\ file' = file ]_vars

\* A process was started on a progress file that a cut-off write had left:
\* it is in the loop, no prompt shown.
C22_Witness ==
  /\ pc = "loop"
  /\ event = "launch"
  /\ ~options.reset
  /\ file.exists
  /\ ~Parses(file.data)
  /\ promptCount = 0
  /\ currentStateIndex = 0

\* C23 (the context only grows): from one state of a process to the next
\* every key of the context stays a key of it, whether the step merges the
\* data of a run, skips a state, handles a retry or a failure, writes the
\* record or restores the record an earlier process wrote.
C23_ContextKeysOnlyGrow ==
  [][ (pc # "off" /\ pc' # "off") => DOMAIN context \subseteq DOMAIN context' ]_vars

\* The process restored a record written after robloxStudio had returned a
\* studioAge that was undefined: the restored context has the keys of the
\* constructor and the tools of the record, studioAge not being one of them.
C23_Witness ==
  /\ event = "answer"
  /\ resumeAnswer = "yes"
  /\ DOMAIN InitialContext \subseteq DOMAIN context
  /\ context["installedTools"] = DataStudio.f["installedTools"]
  /\ "studioAge" \notin DOMAIN context

\* C24 (the merge is shallow): when a run succeeds with data, every key of
\* the data holds in the context exactly the data's value, an object under
\* a key taking the place of the object that was there, and every other key
\* of the context keeps its value.
C24_ShallowMerge ==
  [][ ( /\ pc = "run"
        /\ event' = "ran"
        /\ lastResult'.success
        /\ Truthy(lastResult'.data) )
      => /\ DOMAIN context' = (DOMAIN context) \cup (DOMAIN lastResult'.data.f)
         /\ \A k \in DOMAIN lastResult'.data.f : context'[k] = lastResult'.data.f[k]
         /\ \A k \in (DOMAIN context) \ (DOMAIN lastResult'.data.f) :
              context'[k] = context[k] ]_vars

\* A run returned installedTools with vscode alone after an earlier run of
\* the process had put robloxStudio there: the context holds vscode alone,
\* and still the studioAge key of the earlier run.
C24_Witness ==
  /\ event = "ran"
  /\ lastResult.success
  /\ lastResult.data = DataTools
  /\ "studioAge" \in DOMAIN context
  /\ context["installedTools"] = DataTools.f["installedTools"]
  /\ context["os"] = InitialContext["os"]

\* C25 (the first available port is selected): rojoServer.run probes
\* 34872, 34873, 34874, 34875, 34876 in this order and stops at the first
\* port that is available: the selected port was probed available, every
\* port before it was probed occupied, and no port after it was probed; a
\* child is started only once a port is selected.
C25_FirstAvailablePort ==
  /\ Len(rojo.probes) <= 5
  /\ \A j \in DOMAIN rojo.probes : rojo.probes[j] => j = Len(rojo.probes)
  /\ rojo.selectedPort # 0 =>
       /\ rojo.probes # <<>>
       /\ rojo.probes[Len(rojo.probes)]
       /\ rojo.selectedPort = 34871 + Len(rojo.probes)
  /\ (rojo.probes # <<>> /\ rojo.probes[Len(rojo.probes)]) => rojo.selectedPort # 0
  /\ rojo.started => rojo.selectedPort # 0

\* The first two ports were occupied and the third was available: the child
\* was started and run returned port 34874.
C25_Witness ==
  /\ rojo.pc = "done"
  /\ rojo.probes = <<FALSE, FALSE, TRUE>>
  /\ rojo.started
  /\ rojo.result.success
  /\ rojo.result.data.f["rojoPort"] = Num(34874)

\* All five ports were probed and none was available.
AllOccupied(r) == Len(r.probes) = 5 /\ \A j \in DOMAIN r.probes : ~r.probes[j]

\* C26 (all ports occupied): when none of the five ports is available,
\* rojoServer.run selects no port and starts no child; it asks the user and
\* returns success false without data, retry being the user's answer; the
\* engine, handling the result, leaves the context, the registry and the
\* child as they were.
C26_AllPortsOccupied ==
  [][ /\ AllOccupied(rojo') =>
           /\ rojo'.pc \in {"occupied", "done"}
           /\ rojo'.selectedPort = 0
           /\ ~rojo'.started
           /\ rojo'.pc = "done" =>
                rojo'.result =
                  [success |-> FALSE, retry |-> (rojo'.answer = "yes"), data |-> Undefined]
      /\ ( /\ pc = "run"
           /\ StateAt(currentStateIndex).name = "rojoServer"
           /\ AllOccupied(rojo)
           /\ pc' # "run" )
         => /\ lastResult' = rojo.result
            /\ context' = context
            /\ processes' = processes
            /\ children' = children ]_vars

\* All ports were occupied, the user declined to try again and the engine
\* has rejected on the fatal result, no child having been started.
C26_Witness ==
  /\ pc = "rejected"
  /\ AllOccupied(rojo)
  /\ rojo.answer = "no"
  /\ lastResult = [success |-> FALSE, retry |-> FALSE, data |-> Undefined]
  /\ children.st = "none"
  /\ ~processes.has

\* C27 (a readiness timeout is retryable): when waitForPort has reported
\* that the selected port did not open, the call of rojoServer.run ends with
\* the result success false, retry true, and the engine goes back to the
\* loop at the same state: the wizard neither rejects nor exits.
C27_TimeoutIsRetryable ==
  [][ ( /\ pc = "run"
        /\ StateAt(currentStateIndex).name = "rojoServer"
        /\ rojo.portReady = "no"
        /\ pc' # "run" )
      => /\ pc' = "loop"
         /\ ~lastResult'.success
         /\ lastResult'.retry
         /\ currentStateIndex' = currentStateIndex ]_vars

\* C28 (an open port is a success): once waitForPort has reported the
\* selected port open, rojoServer.run goes on to the HTTP probe and, with
\* either outcome of it, returns success with rojoPort the selected port
\* and rojoRunning true; the engine merges them and advances.
C28_OpenPortSucceeds ==
  [][ /\ rojo'.portReady = "yes" =>
           /\ rojo'.pc \in {"testing", "done"}
           /\ rojo'.selectedPort \in 34872..34876
           /\ rojo'.pc = "done" =>
                /\ rojo'.connected \in {"yes", "no"}
                /\ rojo'.result.success
                /\ Get(rojo'.result.data, "rojoPort") = Num(rojo'.selectedPort)
                /\ Get(rojo'.result.data, "rojoRunning") = Bool(TRUE)
      /\ ( /\ pc = "run"
           /\ StateAt(currentStateIndex).name = "rojoServer"
           /\ rojo.portReady = "yes"
           /\ pc' # "run" )
         => /\ pc' = "loop"
            /\ lastResult' = rojo.result
            /\ currentStateIndex' = currentStateIndex + 1
            /\ context'["rojoPort"] = Num(rojo.selectedPort)
            /\ context'["rojoRunning"] = Bool(TRUE) ]_vars

\* The port opened, the server did not answer the HTTP request, and the
\* engine has advanced with the port in the context, the child running.
C28_Witness ==
  /\ pc = "loop"
  /\ event = "ran"
  /\ rojo.portReady = "yes"
  /\ rojo.connected = "no"
  /\ lastResult.success
  /\ "rojoPort" \in DOMAIN context
  /\ context["rojoPort"] = Num(rojo.selectedPort)
  /\ children.st = "alive"

RecordOfThisRun ==
  /\ pc \notin {"off", "prompt"}
  /\ file.exists
  /\ Parses(file.data)
  /\ resumeAnswer = "yes" \/ written.exists \/ written = WriteFailed

\* The completedStates of the record is a prefix of the engine's, at most
\* one name shorter.
LagsByAtMostOne ==
  LET rec == RecordCompleted(file)
  IN  /\ Len(rec) <= Len(completedStates)
      /\ \A j \in DOMAIN rec : rec[j] = completedStates[j]
      /\ Len(completedStates) - Len(rec) <= 1

\* C30 as stated (the record lags by at most one step): at every point of
\* a process the record on disk that the process restored or wrote has a
\* completedStates that is a prefix of the engine's and at most one name
\* shorter.
C30_RecordLagsByOne == RecordOfThisRun => LagsByAtMostOne

\* C30 amended: the same at every point at which the last write of the
\* record by the process, if there was one, did not fail.
C30_RecordLagsByOneIfWritten ==
  (RecordOfThisRun /\ written # WriteFailed) => LagsByAtMostOne

\* A resumed process has completed a further state and written its record:
\* the record lists the states the engine lists.
C30_Witness ==
  /\ pc = "check"
  /\ resumeAnswer = "yes"
  /\ written.exists
  /\ file.exists
  /\ Parses(file.data)
  /\ Len(completedStates) = 2
  /\ RecordCompleted(file) = completedStates

\* No name occurs twice in the sequence.
NoDuplicates(names) ==
  \A i, j \in DOMAIN names : names[i] = names[j] => i = j

\* C31 (no name is completed twice): completedStates holds no name twice,
\* in the engine and in the record on file, whatever the successes, skips,
\* retries and resumes, the state a resumed process executes again
\* included.
C31_NoDuplicateNames ==
  /\ NoDuplicates(completedStates)
  /\ file.exists => NoDuplicates(RecordCompleted(file))

\* A resumed process has run again, with success, the state whose name the
\* restored record already listed, and has written the record.
C31_Witness ==
  /\ resumeAnswer = "yes"
  /\ event = "ran"
  /\ lastResult.success
  /\ firstInvoked = currentStateIndex - 1
  /\ advances[firstInvoked] = 1
  /\ Len(completedStates) = currentStateIndex
  /\ completedStates[currentStateIndex] = StateAt(firstInvoked).name
  /\ file.exists
  /\ RecordCompleted(file) = completedStates

\* C32 (an exception of a step ends the run): when the check or the run of
\* a state throws, run() rejects with the error thrown; the state's name is
\* not added to completedStates, currentStateIndex and the context stay,
\* the progress file is neither written nor deleted, and from then on the
\* process calls no check and no run and leaves the file alone.
C32_ThrowRejects ==
  [][ /\ (pc \in {"check", "run"} /\ event' = "threw")
        => /\ pc' = "rejected"
           /\ failure' = [kind |-> "threw", at |-> currentStateIndex]
           /\ UNCHANGED <<context, currentStateIndex, completedStates, file, written>>
           /\ UNCHANGED <<checkCalls, runCalls>>
      /\ pc = "rejected"
        => /\ pc' \in {"rejected", "stopping", "off"}
           /\ file' = file
           /\ pc' # "off" => UNCHANGED <<checkCalls, runCalls, engine, failure>> ]_vars

\* The run of the second state threw: run() has rejected with the index at
\* 1, the first state alone completed and its record on file.
C32_Witness ==
  /\ pc = "rejected"
  /\ event = "threw"
  /\ failure = [kind |-> "threw", at |-> 1]
  /\ runCalls[1] = 1
  /\ currentStateIndex = 1
  /\ completedStates = <<StateAt(0).name>>
  /\ file.exists
  /\ RecordIndex(file) = 0
  /\ RecordCompleted(file) = completedStates

\* C33 (a resolved run has completed every state): when run() has
\* resolved, completedStates lists the name of every state of the list, once
\* and in the order of the list, and every state was skipped or ran with
\* success in this process or lies before the index the process resumed at,
\* its name having come with the restored record.
C33_ResolvedMeansAllCompleted ==
  pc = "resolved" =>
    /\ currentStateIndex = Len(states)
    /\ completedStates = FirstNames(Len(states))
    /\ \A i \in Indices :
         \/ ended[i] \in {"skipped", "succeeded"}
         \/ resumeAnswer = "yes" /\ firstInvoked > i /\ ended[i] = "none"

\* A process resumed after the first state, completed the others and its
\* run() resolved with the names of all the states.
C33_Witness ==
  /\ pc = "resolved"
  /\ resumeAnswer = "yes"
  /\ firstInvoked >= 1
  /\ ended[0] = "none"
  /\ ended[NumStates - 1] = "skipped"
  /\ Len(completedStates) = NumStates
  /\ completedStates[1] = StateAt(0).name

\* C34 (run() settles): a process whose prompt is answered, whose checks
\* and runs all return or throw and whose runs ask for a retry finitely
\* often gets from every point of run() to the point where run() has
\* resolved or rejected.
C34_RunSettles ==
  (pc \in {"prompt", "loop", "check", "run"}) ~> (pc \in {"resolved", "rejected"})

\* run() has resolved in a process whose runs asked for all the retries
\* there can be.
C34_Witness ==
  /\ pc = "resolved"
  /\ TotalRetries = MaxRetries
  /\ retries[NumStates - 1] >= 1
  /\ currentStateIndex = Len(states)


\* C35: stop(name) eventually resolves for every registered name, also for a
\* child that had exited before stop was called.  stop resolves at once or
\* in its listener for the child's exit event, so a stop that waits must
\* have a child whose exit is still to come: a stop never waits for a child
\* that has exited already.
C35_StopResolves ==
  waiting # {} => children.st = "alive"


\* C36: isRunning(name) is true only while the child has not exited: once
\* the managed process has exited, on its own or after being stopped,
\* isRunning(name) and getStatus(name).running are false.
C36_RunningOnlyWhileAlive ==
  children.st = "exited" => ~isRunning(processes)


\* C37: under any interleaving of startBackground and stop on the same name,
\* every spawned child that has not exited is the one recorded in the
\* registry, so that stopAll reaches it, and a waiting stop of an earlier
\* child never removes the entry of a later one: a child that is alive and
\* was sent no signal is registered while the wizard is up, and none is left
\* when the wizard has exited.
C37_LiveChildIsRegistered ==
  (children.st = "alive" /\ ~children.SIGTERM /\ ~children.SIGKILL)
    => (pc # "off" /\ processes.has)


\* C38: whenever a step is invoked with Context.rojoRunning === true and
\* Context.rojoPort set, a 'rojo-server' managed process is registered and
\* running in the current wizard process, also when the Context was
\* restored from a record an earlier wizard process wrote.
C38_RojoRunningMeansManaged ==
  (/\ pc \in {"check", "run"}
   /\ Get(Obj(context), "rojoRunning") = Bool(TRUE)
   /\ Truthy(Get(Obj(context), "rojoPort")))
    => (isRunning(processes) /\ children.st = "alive")

====
